---- MODULE Spec2Model ----
(***************************************************************************)
(* Greedy maximum cover and solution merge of the operation pool           *)
(* (beacon_node/operation_pool/src/max_cover.rs).                          *)
(*                                                                         *)
(* Items are the HashSet<usize> implementation of the MaxCover trait       *)
(* given in the module's tests: Object = Intermediate = Set = the set      *)
(* itself, score = cardinality, update_covering_set = set difference.      *)
(***************************************************************************)
EXTENDS Integers, Sequences, FiniteSets, TLC

(***************************************************************************)
(* Bounds of the enumerated inputs.                                        *)
(***************************************************************************)
\* elements of the enumerated items of maximum_cover are 1..MaxElem
MaxElem == 2
\* longest enumerated input collection of maximum_cover
MaxItems == 3
\* largest enumerated limit of maximum_cover
MaxLimit == 4
\* elements of the enumerated items of merge_solutions are 1..MaxMergeElem
MaxMergeElem == 1
\* longest enumerated input solution of merge_solutions
MaxMergeLen == 2

VARIABLES
    op,          \* which function this run calls
    pc,          \* position in the called function
    items_iter,  \* maximum_cover: the input collection
    limit,       \* the limit argument of the called function
    all_items,   \* maximum_cover: the working vector of MaxCoverItem
    result,      \* maximum_cover: the result vector
    round,       \* maximum_cover: number of completed iterations of `for _ in 0..limit`
    x,           \* maximum_cover: position in all_items of the entry max_by_key returned (0: none yet)
    best,        \* maximum_cover: the clone of the selected item
    cover1,      \* merge_solutions: first input solution
    cover2,      \* merge_solutions: second input solution
    next1,       \* merge_solutions: number of elements consumed from cover1
    next2,       \* merge_solutions: number of elements consumed from cover2
    taken,       \* merge_solutions: the merged stream, as <<input, position>> of each element
    objects      \* merge_solutions: the collected objects

vars == <<op, pc, items_iter, limit, all_items, result, round, x, best,
          cover1, cover2, next1, next2, taken, objects>>

cover_vars == <<items_iter, all_items, result, round, x, best>>
merge_vars == <<cover1, cover2, next1, next2, taken, objects>>

(***************************************************************************)
(* Sequence helpers.                                                       *)
(***************************************************************************)
SeqsUpTo(S, n) == UNION {[1..k -> S] : k \in 0..n}

RECURSIVE SumSeq(_)
SumSeq(s) == IF s = <<>> THEN 0 ELSE Head(s) + SumSeq(Tail(s))

Min(a, b) == IF a <= b THEN a ELSE b

(***************************************************************************)
(* impl MaxCover for HashSet<T>                                            *)
(***************************************************************************)
intermediate(item) == item

convert_to_object(set) == set

covering_set(item) == item

\* an update that adds the chosen set instead of removing it
update_covering_set_union(self, max_obj, max_set) == self \cup max_set

update_covering_set(self, max_obj, max_set) == self \ max_set

score(item) == Cardinality(item)

(***************************************************************************)
(* struct MaxCoverItem                                                     *)
(***************************************************************************)
MaxCoverItem(item) == [item |-> item, available |-> TRUE]

(***************************************************************************)
(* The test inputs of the source.                                          *)
(***************************************************************************)
example_system == << {3}, {1, 2, 4, 5}, {1, 2, 4, 5}, {1}, {2, 4, 5} >>

suboptimal_sets ==
    << {0, 1, 8, 11, 14}, {2, 3, 7, 9, 10}, {4, 5, 6, 12, 13},
       {9, 10}, {5, 6, 7, 8}, {0, 1, 2, 3, 4} >>

intersecting_sets ==
    << {1, 2, 3, 4, 5, 6, 7, 8}, {1, 2, 3, 9, 10, 11}, {4, 5, 6, 12, 13, 14},
       {7, 8, 15, 16, 17, 18}, {1, 2, 9, 10}, {1, 5, 6, 8}, {1, 7, 11, 19} >>

\* the calls of maximum_cover made by the tests: <<items, limit>>
TestCalls ==
    {<<example_system, 0>>, <<example_system, 1>>}
        \cup {<<example_system, k>> : k \in 2..9}
        \cup {<<suboptimal_sets, 3>>, <<intersecting_sets, 5>>}

\* test helper `quality`: solution.iter().map(HashSet::len).sum()
quality(solution) == SumSeq([k \in 1..Len(solution) |-> Cardinality(solution[k])])

(***************************************************************************)
(* maximum_cover                                                           *)
(***************************************************************************)
\* .filter(|x| x.item.score() != 0).collect()
NonZero(entry) == score(entry.item) /= 0

initial_items(items) == SelectSeq([p \in 1..Len(items) |-> MaxCoverItem(items[p])], NonZero)

\* the filter without its score test
Selectable_available_only(entry) == entry.available

\* the filter with the score test off by one
Selectable_above_one(entry) == entry.available /\ score(entry.item) > 1

\* .filter(|x| x.available && x.item.score() != 0)
Selectable(entry) == entry.available /\ score(entry.item) /= 0

\* positions of the entries of `entries` that pass the filter, in iteration order
RECURSIVE FilterPositions(_, _)
FilterPositions(entries, p) ==
    IF p > Len(entries) THEN <<>>
    ELSE IF Selectable(entries[p])
         THEN <<p>> \o FilterPositions(entries, p + 1)
         ELSE FilterPositions(entries, p + 1)

\* a reduce that keeps the accumulator on ties: the first maximal element wins
max_by_key_step_first(entries, acc, y) ==
    IF score(entries[acc].item) >= score(entries[y].item) THEN acc ELSE y

\* a reduce with the comparison inverted: a minimal element wins
max_by_key_step_min(entries, acc, y) ==
    IF score(entries[acc].item) < score(entries[y].item) THEN acc ELSE y

\* Iterator::max_by_key is a reduce that keeps the accumulator only when its key
\* compares Greater, so the last of several equally maximal elements is returned.
max_by_key_step(entries, acc, y) ==
    IF score(entries[acc].item) > score(entries[y].item) THEN acc ELSE y

RECURSIVE Reduce(_, _, _)
Reduce(entries, acc, rest) ==
    IF rest = <<>> THEN acc
    ELSE Reduce(entries, max_by_key_step(entries, acc, Head(rest)), Tail(rest))

\* the position max_by_key returns, 0 for None
max_by_key(entries) ==
    LET cand == FilterPositions(entries, 1)
    IN  IF cand = <<>> THEN 0 ELSE Reduce(entries, Head(cand), Tail(cand))

\* a loop that runs once too often
HasNextRound_inclusive == round <= limit

\* `for _ in 0..limit` has another iteration
HasNextRound == round < limit

\* the covering sets of the other items are left as they are
update_all_skipped(entries, b) == entries

\* the update without its filter: every entry is updated, the selected ones too
update_all_unfiltered(entries, b) ==
    [p \in 1..Len(entries) |->
        [entries[p] EXCEPT !.item =
            update_covering_set(@, intermediate(b), covering_set(b))]]

\* all_items.iter_mut().filter(..).for_each(|x| x.item.update_covering_set(..))
update_all(entries, b) ==
    [p \in 1..Len(entries) |->
        IF Selectable(entries[p])
        THEN [entries[p] EXCEPT !.item =
                 update_covering_set(@, intermediate(b), covering_set(b))]
        ELSE entries[p]]

InitCover ==
    /\ op = "maximum_cover"
    /\ pc = "collect"
    /\ \E call \in TestCalls \cup (SeqsUpTo(SUBSET (1..MaxElem), MaxItems) \X (0..MaxLimit)) :
          /\ items_iter = call[1]
          /\ limit = call[2]
    /\ all_items = <<>>
    /\ result = <<>>
    /\ round = 0
    /\ x = 0
    /\ best = {}
    /\ cover1 = <<>>
    /\ cover2 = <<>>
    /\ next1 = 0
    /\ next2 = 0
    /\ taken = <<>>
    /\ objects = <<>>

\* lines 59-71: build the working vector, dropping zero-score items
Collect ==
    /\ op = "maximum_cover"
    /\ pc = "collect"
    /\ all_items' = initial_items(items_iter)
    /\ result' = <<>>
    /\ pc' = "select"
    /\ UNCHANGED <<op, items_iter, limit, round, x, best, merge_vars>>

\* lines 73-83: max_by_key returned Some(x)
SelectBest ==
    /\ op = "maximum_cover"
    /\ pc = "select"
    /\ HasNextRound
    /\ max_by_key(all_items) /= 0
    /\ x' = max_by_key(all_items)
    /\ all_items' = [all_items EXCEPT ![x'].available = FALSE]
    /\ best' = all_items[x'].item
    /\ pc' = "update"
    /\ UNCHANGED <<op, items_iter, limit, result, round, merge_vars>>

\* line 84: None => return result
ReturnEarly ==
    /\ op = "maximum_cover"
    /\ pc = "select"
    /\ HasNextRound
    /\ max_by_key(all_items) = 0
    /\ pc' = "done"
    /\ UNCHANGED <<op, items_iter, limit, all_items, result, round, x, best, merge_vars>>

\* lines 87-97: update the other items and push the selected one
UpdateOthers ==
    /\ op = "maximum_cover"
    /\ pc = "update"
    /\ all_items' = update_all(all_items, best)
    /\ result' = Append(result, best)
    /\ round' = round + 1
    /\ pc' = "select"
    /\ UNCHANGED <<op, items_iter, limit, x, best, merge_vars>>

\* line 100: the loop ran `limit` times
ReturnResult ==
    /\ op = "maximum_cover"
    /\ pc = "select"
    /\ ~HasNextRound
    /\ pc' = "done"
    /\ UNCHANGED <<op, items_iter, limit, all_items, result, round, x, best, merge_vars>>

(***************************************************************************)
(* merge_solutions                                                         *)
(***************************************************************************)
\* a closure with a strict comparison: ties go to the second input
merge_pred_strict(item1, item2) == score(item1) > score(item2)

\* a closure with the comparison inverted: the lower score goes first
merge_pred_inverted(item1, item2) == score(item1) <= score(item2)

\* the closure given to merge_by: |item1, item2| item1.score() >= item2.score()
merge_pred(item1, item2) == score(item1) >= score(item2)

\* a take that lets one element too many through
TakeMore_inclusive == Len(taken) <= limit

\* .take(limit) lets another element through
TakeMore == Len(taken) < limit

\* merge_by yields the head of the first iterator when both have a head and the
\* closure holds, or when only the first has one; else the head of the second.
FromFirst ==
    /\ next1 < Len(cover1)
    /\ (next2 < Len(cover2) => merge_pred(cover1[next1 + 1], cover2[next2 + 1]))

FromSecond ==
    /\ next2 < Len(cover2)
    /\ ~FromFirst

\* .map(|item| T::convert_to_object(item.intermediate()))
to_object(item) == convert_to_object(intermediate(item))

InitMerge ==
    /\ op = "merge_solutions"
    /\ pc = "merge"
    /\ cover1 \in SeqsUpTo(SUBSET (1..MaxMergeElem), MaxMergeLen)
    /\ cover2 \in SeqsUpTo(SUBSET (1..MaxMergeElem), MaxMergeLen)
    /\ limit \in 0..(2 * MaxMergeLen + 1)
    /\ next1 = 0
    /\ next2 = 0
    /\ taken = <<>>
    /\ objects = <<>>
    /\ items_iter = <<>>
    /\ all_items = <<>>
    /\ result = <<>>
    /\ round = 0
    /\ x = 0
    /\ best = {}

\* the merged stream yields the head of cover1
MergeTakeFirst ==
    /\ op = "merge_solutions"
    /\ pc = "merge"
    /\ TakeMore
    /\ FromFirst
    /\ next1' = next1 + 1
    /\ taken' = Append(taken, <<1, next1 + 1>>)
    /\ objects' = Append(objects, to_object(cover1[next1 + 1]))
    /\ UNCHANGED <<op, pc, limit, cover1, cover2, next2, cover_vars>>

\* the merged stream yields the head of cover2
MergeTakeSecond ==
    /\ op = "merge_solutions"
    /\ pc = "merge"
    /\ TakeMore
    /\ FromSecond
    /\ next2' = next2 + 1
    /\ taken' = Append(taken, <<2, next2 + 1>>)
    /\ objects' = Append(objects, to_object(cover2[next2 + 1]))
    /\ UNCHANGED <<op, pc, limit, cover1, cover2, next1, cover_vars>>

\* take(limit) is used up or both inputs are exhausted: collect() returns
MergeReturn ==
    /\ op = "merge_solutions"
    /\ pc = "merge"
    /\ ~TakeMore \/ (~FromFirst /\ ~FromSecond)
    /\ pc' = "done"
    /\ UNCHANGED <<op, limit, cover_vars, merge_vars>>

Init == InitCover \/ InitMerge

Next ==
    \/ Collect
    \/ SelectBest
    \/ ReturnEarly
    \/ UpdateOthers
    \/ ReturnResult
    \/ MergeTakeFirst
    \/ MergeTakeSecond
    \/ MergeReturn

Spec == Init /\ [][Next]_vars

(***************************************************************************)
(* Properties of maximum_cover.                                            *)
(***************************************************************************)
Positions == 1..Len(all_items)

InCover == op = "maximum_cover"

Returned == InCover /\ pc = "done"

\* In state "update" the entry at x was just selected and the other entries still
\* have the scores the scan saw: the entries the scan of this round went over.
Scanned == {p \in Positions : p = x \/ (all_items[p].available /\ score(all_items[p].item) /= 0)}

\* the scanned entries of maximal score
Tied == {p \in Scanned : \A q \in Scanned : score(all_items[q].item) <= score(all_items[p].item)}

\* C1 as stated: in every round in which two or more available entries of non-zero
\* score share the maximal score, the selected entry is the first of them (the
\* smallest position; the working vector keeps the input order).
C1_FirstTiedIsSelected ==
    (InCover /\ pc = "update" /\ Cardinality(Tied) >= 2)
        => (x \in Tied /\ \A p \in Tied : x <= p)

\* C1 amended: in every round in which two or more available entries of non-zero
\* score share the maximal score, the selected entry is the last of them in input
\* order (the largest position).
C1_LastTiedIsSelected ==
    (InCover /\ pc = "update" /\ Cardinality(Tied) >= 2)
        => (x \in Tied /\ \A p \in Tied : p <= x)

\* a round of a later iteration selected one of several entries of maximal score
C1_Witness ==
    InCover /\ pc = "update" /\ round >= 1 /\ Cardinality(Tied) >= 2

\* C2: on the input of test `suboptimal` with limit 3, maximum_cover returns 3
\* items whose scores sum to 11, although the first three input sets are a
\* selection of 3 items that covers 15 elements.
C2_SuboptimalIsEleven ==
    (Returned /\ items_iter = suboptimal_sets /\ limit = 3)
        => /\ Len(result) = 3
           /\ quality(result) = 11
           /\ Cardinality(items_iter[1] \cup items_iter[2] \cup items_iter[3]) = 15

\* the call of test `suboptimal` has returned
C2_Witness ==
    Returned /\ items_iter = suboptimal_sets /\ limit = 3 /\ Len(result) = 3

\* number of input items whose score is non-zero at input time
NonZeroInputs == Cardinality({p \in 1..Len(items_iter) : score(items_iter[p]) /= 0})

\* C3: the result is never longer than limit nor than the number of input items of
\* non-zero score; limit = 0 or an empty input returns the empty sequence.
C3_OutputSizeBound ==
    InCover =>
        /\ Len(result) <= limit
        /\ Len(result) <= NonZeroInputs
        /\ (pc = "done" /\ (limit = 0 \/ items_iter = <<>>)) => result = <<>>

\* a call returned with both bounds met: limit items, all the non-zero inputs
C3_Witness ==
    Returned /\ limit >= 2 /\ Len(result) = limit /\ NonZeroInputs = limit
        /\ Len(items_iter) > NonZeroInputs

\* the input items of non-zero score, in input order
RECURSIVE NonZeroItems(_)
NonZeroItems(items) ==
    IF items = <<>> THEN <<>>
    ELSE IF score(Head(items)) = 0 THEN NonZeroItems(Tail(items))
         ELSE <<Head(items)>> \o NonZeroItems(Tail(items))

\* C4: no entry of the working vector comes from an input item of score 0, every
\* item has score >= 1 at the moment it is selected, and every returned item has
\* score >= 1.
C4_NoUselessItems ==
    InCover =>
        /\ \A k \in 1..Len(result) : score(result[k]) >= 1
        /\ pc = "update" => score(best) >= 1
        /\ pc /= "collect" =>
              /\ Len(all_items) = Len(NonZeroItems(items_iter))
              /\ \A p \in Positions : all_items[p].item \subseteq NonZeroItems(items_iter)[p]

\* a call returned early with room left, an input item of score 0 and an
\* unselected entry whose score dropped to 0
C4_Witness ==
    /\ Returned
    /\ result /= <<>>
    /\ Len(result) < limit
    /\ \E p \in 1..Len(items_iter) : score(items_iter[p]) = 0
    /\ \E p \in Positions : all_items[p].available /\ score(all_items[p].item) = 0

\* C5: the result is in selection order and the scores of its items, each as of
\* its selection, never increase from one item to the next.
C5_NonIncreasingScores ==
    InCover =>
        /\ \A k \in 1..(Len(result) - 1) : score(result[k]) >= score(result[k + 1])
        /\ (pc = "update" /\ result /= <<>>) => score(result[Len(result)]) >= score(best)

\* a call returned three items, with a strict drop and a tie among their scores
C5_Witness ==
    /\ Returned
    /\ Len(result) >= 3
    /\ \E k \in 1..(Len(result) - 1) : score(result[k]) > score(result[k + 1])
    /\ \E k \in 1..(Len(result) - 1) : score(result[k]) = score(result[k + 1])

\* C6: a call that returns fewer than limit items stopped before limit rounds, and
\* then no entry is available with a non-zero score; on example_system every limit
\* in 2..9 returns the 4-element set, then {3}.
C6_EarlyReturnOnExhaustion ==
    Returned =>
        /\ Len(result) = round
        /\ Len(result) < limit =>
              \A p \in Positions : all_items[p].available => score(all_items[p].item) = 0
        /\ (items_iter = example_system /\ limit \in 2..9) =>
              result = << {1, 2, 4, 5}, {3} >>

\* the call of test `exclude_zero_score` with the largest limit has returned early
C6_Witness ==
    Returned /\ items_iter = example_system /\ limit = 9 /\ round = 2

RECURSIVE Pow(_, _)
Pow(b, e) == IF e = 0 THEN 1 ELSE b * Pow(b, e - 1)

UnionOf(items, ps) == UNION {items[p] : p \in ps}

\* the largest number of elements covered by at most k of the input items
Opt(items, k) ==
    LET sizes == {Cardinality(UnionOf(items, ps)) :
                     ps \in {q \in SUBSET (1..Len(items)) : Cardinality(q) <= k}}
    IN  CHOOSE m \in sizes : \A n \in sizes : n <= m

\* the number of distinct elements covered by the result
Covered == Cardinality(UnionOf(result, 1..Len(result)))

\* C10: for limit k >= 1 the result covers at least (1 - (1 - 1/k)^k) of what the
\* best k input items cover: covered * k^k >= (k^k - (k-1)^k) * OPT, for covered
\* counted as distinct elements and as the sum of the returned scores.
C10_GreedyApproximation ==
    (Returned /\ limit >= 1) =>
        LET kk == Pow(limit, limit)
            bound == (kk - Pow(limit - 1, limit)) * Opt(items_iter, limit)
        IN  /\ Covered * kk >= bound
            /\ quality(result) * kk >= bound

\* a call returned a cover that is smaller than the best one of limit items
C10_Witness ==
    Returned /\ limit >= 2 /\ Covered < Opt(items_iter, limit)

(***************************************************************************)
(* Properties of merge_solutions.                                          *)
(***************************************************************************)
InMerge == op = "merge_solutions"

Merged == InMerge /\ pc = "done"

\* a solution whose scores never increase from one item to the next
Descending(cover) ==
    \A k \in 1..(Len(cover) - 1) : score(cover[k]) >= score(cover[k + 1])

\* the item of the inputs that element k of the merged stream is
TakenItem(k) == IF taken[k][1] = 1 THEN cover1[taken[k][2]] ELSE cover2[taken[k][2]]

\* how many of the first k elements of the merged stream come from input n
TakenFrom(n, k) == Cardinality({j \in 1..k : taken[j][1] = n})

\* C7: when both inputs are non-increasing in score, the returned objects are
\* those of items whose scores never increase from first to last.
C7_MergeKeepsOrder ==
    (InMerge /\ Descending(cover1) /\ Descending(cover2)) =>
        /\ Len(objects) = Len(taken)
        /\ \A k \in 1..(Len(taken) - 1) : score(TakenItem(k)) >= score(TakenItem(k + 1))
        /\ \A k \in 1..(Len(objects) - 1) : score(objects[k]) >= score(objects[k + 1])

\* two sorted solutions were merged, with elements of both in the output and a
\* strict drop of the score
C7_Witness ==
    /\ Merged
    /\ Descending(cover1) /\ Descending(cover2)
    /\ next1 >= 1 /\ next2 >= 1
    /\ Len(objects) >= 3
    /\ \E k \in 1..(Len(objects) - 1) : score(objects[k]) > score(objects[k + 1])

\* C8: for any inputs, sorted or not, merge_solutions returns min(limit, |a|+|b|)
\* objects; object k is convert_to_object of the intermediate of element k of the
\* merged stream; the stream takes no element twice and takes the elements of each
\* input in their order, a prefix of each input.
C8_MergeSizeAndProvenance ==
    InMerge =>
        /\ next1 <= Len(cover1) /\ next2 <= Len(cover2)
        /\ Len(taken) = next1 + next2
        /\ Len(objects) = Len(taken)
        /\ Len(objects) <= limit
        /\ pc = "done" => Len(objects) = Min(limit, Len(cover1) + Len(cover2))
        /\ \A k \in 1..Len(taken) :
              /\ taken[k][1] \in {1, 2}
              /\ taken[k][2] = TakenFrom(taken[k][1], k)
              /\ taken[k][2] <= (IF taken[k][1] = 1 THEN Len(cover1) ELSE Len(cover2))
              /\ objects[k] = convert_to_object(intermediate(TakenItem(k)))
        /\ \A j, k \in 1..Len(taken) : j /= k => taken[j] /= taken[k]

\* unsorted inputs were merged and truncated by the limit, with elements of both
\* inputs in the output
C8_Witness ==
    /\ Merged
    /\ ~Descending(cover1)
    /\ next1 >= 1 /\ next2 >= 1
    /\ Len(objects) = limit
    /\ limit < Len(cover1) + Len(cover2)

\* the numbers of elements consumed from each input before step k of the merge
Before1(k) == TakenFrom(1, k - 1)
Before2(k) == TakenFrom(2, k - 1)

\* C9: at every step at which both inputs have a head, the head of the first is
\* emitted exactly when its score is >= that of the head of the second, so of two
\* heads of equal score the one of the first input is emitted at that step and
\* the one of the second only later, if the limit leaves room; and, for inputs
\* that are non-increasing in score, no element of the second input precedes an
\* element of the first of the same score, nor is returned while one of the
\* first of the same score is left out.
C9_MergeTieBreak ==
    InMerge =>
        /\ \A k \in 1..Len(taken) :
              (Before1(k) < Len(cover1) /\ Before2(k) < Len(cover2)) =>
                  /\ taken[k][1] = 1 <=>
                        score(cover1[Before1(k) + 1]) >= score(cover2[Before2(k) + 1])
                  /\ score(cover1[Before1(k) + 1]) = score(cover2[Before2(k) + 1]) =>
                        /\ taken[k] = <<1, Before1(k) + 1>>
                        /\ \A j \in 1..k : taken[j] /= <<2, Before2(k) + 1>>
        /\ (Descending(cover1) /\ Descending(cover2)) =>
              /\ \A j, k \in 1..Len(taken) :
                    (taken[j][1] = 2 /\ taken[k][1] = 1
                        /\ score(TakenItem(j)) = score(TakenItem(k))) => k < j
              /\ \A j \in 1..Len(taken) : \A q \in (next1 + 1)..Len(cover1) :
                    taken[j][1] = 2 => score(cover1[q]) /= score(TakenItem(j))

\* a merge met two heads of equal score and the limit cut off the one of the
\* second input
C9_Witness ==
    /\ Merged
    /\ \E k \in 1..Len(taken) :
          /\ Before1(k) < Len(cover1) /\ Before2(k) < Len(cover2)
          /\ score(cover1[Before1(k) + 1]) = score(cover2[Before2(k) + 1])
          /\ score(cover1[Before1(k) + 1]) >= 1
    /\ Len(taken) = limit
    /\ next2 < Len(cover2)

(***************************************************************************)
(* Properties of the rounds of maximum_cover.                              *)
(***************************************************************************)
\* the item the entry at position p was built from
Original(p) == NonZeroItems(items_iter)[p]

\* C11: in every round that selects an item, the selected item's score at that
\* moment is >= the current score of every entry that is still available, the
\* current scores being those left by the updates of all earlier rounds.
C11_SelectedIsMaximal ==
    (InCover /\ pc = "update") =>
        /\ x \in Positions
        /\ best = all_items[x].item
        /\ \A p \in Positions :
              all_items[p].available => score(best) >= score(all_items[p].item)

\* a later round selected an item while an entry that an earlier round had
\* shrunk was still available with a smaller, non-zero score
C11_Witness ==
    /\ InCover /\ pc = "update" /\ round >= 1
    /\ \E p \in Positions :
          /\ all_items[p].available
          /\ all_items[p].item /= Original(p)
          /\ score(all_items[p].item) >= 1
          /\ score(all_items[p].item) < score(best)

\* the entries that have been selected
Unavailable == {p \in Positions : ~all_items[p].available}

\* the selected entries whose copy is in the result: all but the one of a round
\* that is still to push
Pushed == IF pc = "update" THEN Unavailable \ {x} ELSE Unavailable

\* in every state: each returned item is the item of a selected entry as it is
\* kept in the working vector, and no two returned items are of the same entry
EntriesAndResult ==
    InCover =>
        /\ Cardinality(Pushed) = Len(result)
        /\ \A k \in 1..Len(result) : \E p \in Pushed : result[k] = all_items[p].item
        /\ \A j, k \in 1..Len(result) : j /= k => result[j] /= result[k]

\* in every step: what may change in the working vector and the result
EntryStep ==
    InCover =>
        /\ pc = "collect" =>
              /\ Len(all_items') = NonZeroInputs
              /\ \A p \in 1..Len(all_items') :
                    all_items'[p] = [item |-> Original(p), available |-> TRUE]
        /\ pc /= "collect" =>
              /\ Len(all_items') = Len(all_items)
              /\ \A p \in Positions :
                    /\ all_items'[p].item \subseteq all_items[p].item
                    /\ all_items'[p].available /= all_items[p].available =>
                          /\ all_items[p].available
                          /\ pc = "select" /\ pc' = "update"
                          /\ x' = p
                    /\ ~all_items[p].available => all_items'[p] = all_items[p]
                    /\ all_items'[p].item /= all_items[p].item =>
                          /\ pc = "update"
                          /\ all_items[p].available
                          /\ score(all_items[p].item) /= 0
        /\ (pc = "select" /\ pc' = "update") =>
              /\ x' \in Positions
              /\ all_items[x'].available /\ ~all_items'[x'].available
              /\ best' = all_items[x'].item
              /\ result' = result
        /\ pc = "update" =>
              /\ ~all_items[x].available
              /\ best = all_items[x].item
              /\ result' = Append(result, all_items[x].item)
        /\ (pc = "select" /\ pc' = "done") =>
              /\ result' = result
              /\ all_items' = all_items

\* C12: after step 1 the working vector keeps its size and its entries their
\* positions; a flag changes only from available to unavailable, in the round
\* that selects the entry; a selected entry is not selected again and is not
\* updated, so each input item is returned at most once and the returned copy is
\* the item as of its selection; only entries that are available and of non-zero
\* score are updated.
C12_EntryLifecycle == []EntriesAndResult /\ [][EntryStep]_vars

\* a call returned two items, the second of them shrunk before its selection,
\* and left an entry available that the updates emptied
C12_Witness ==
    /\ Returned
    /\ Len(result) >= 2
    /\ \E p \in Unavailable : all_items[p].item /= Original(p)
    /\ \E p \in Positions : all_items[p].available /\ score(all_items[p].item) = 0

\* C13: the covering sets of the returned items are non-empty and pairwise
\* disjoint, each is a subset of the original set of the input item it comes
\* from, and so the sum of the returned scores is the number of distinct
\* elements the result covers.
C13_NoDoubleCounting ==
    InCover =>
        /\ \A k \in 1..Len(result) :
              /\ result[k] /= {}
              /\ \E p \in Pushed :
                    result[k] = all_items[p].item /\ result[k] \subseteq Original(p)
        /\ \A j, k \in 1..Len(result) : j /= k => result[j] \cap result[k] = {}
        /\ pc = "update" =>
              /\ best /= {}
              /\ best \subseteq Original(x)
              /\ \A k \in 1..Len(result) : best \cap result[k] = {}
        /\ quality(result) = Covered

\* a call returned items whose original sets overlap: a returned set is smaller
\* than the set it comes from
C13_Witness ==
    /\ Returned
    /\ Len(result) >= 2
    /\ \E p \in Unavailable :
          /\ all_items[p].item /= Original(p)
          /\ \E q \in Unavailable : q /= p /\ Original(p) \cap Original(q) /= {}

====
